---- MODULE Spec2Model ----
(***************************************************************************)
(* PDF chat bot (pdf-chat-bot): the persisted Chroma collection, the       *)
(* VectorStore that replaces its content in batches, the extraction /      *)
(* chunking / indexing jobs of app.py and the ChatEngine query path.       *)
(*                                                                         *)
(* Every call into the collection or a model (count, get, delete, add,     *)
(* query, encode, invoke) either returns or raises; which one is chosen    *)
(* by the environment at each call.  A session's script run is a process   *)
(* whose position is pc[s]; it yields between two calls on the collection. *)
(***************************************************************************)
EXTENDS Integers, Sequences, FiniteSets, TLC

Sessions == {"s1", "s2"}

\* ------------------------------------------------------------------ bounds
MaxChunks == 2      \* longest chunk list handed to add_documents directly
MaxBatch == 2       \* batch sizes 1..MaxBatch are tried beside the default
MaxK == 2           \* k of a direct similarity_search call: 1..MaxK and 5
MaxTurns == 2       \* generate_response calls made on one ChatEngine
MaxAsked == 1       \* questions asked in one session's chat
MaxEntries == 26    \* entries the collection holds at most: an add beyond raises
MaxPages == 2       \* pages of a document list handed to create_chunks directly

\* ------------------------------------------------------- program constants
DefaultBatchSize == 50      \* add_documents(chunks, batch_size=50)
DefaultK == 5               \* similarity_search(query, k=5)
ChunkSize == 1000           \* TextChunker(chunk_size=1000, ...)
ChunkOverlap == 200         \* TextChunker(..., chunk_overlap=200)
ProgressBatchSize == 25     \* batch_size = 25 in process_pdf_with_progress

VARIABLES
  collection,   \* the persisted collection "pdf_documents": id -> entry
  pc,           \* pc[s]: where session s's running script is
  caller,       \* caller[s]: who called add_documents ("direct", "manual", "auto")
  ad,           \* ad[s]: locals and outcome of s's add_documents call
  prev,         \* prev[s]: the add_documents call before the current one
  sr,           \* sr[s]: outcome of s's last direct similarity_search call
  text_chunker, \* text_chunker[s]: a TextChunker made directly, and its calls
  conversation_history,  \* conversation_history[s]: of s's ChatEngine
  chat,         \* chat[s]: s's last generate_response call and what it returned
  uploads,      \* the PDF files in ./data/uploads
  processed,    \* st.session_state.processed of each session
  processed_file,           \* st.session_state.processed_file
  chat_history,             \* st.session_state.chat_history
  initialization_complete,  \* st.session_state.initialization_complete
  phase,        \* phase[s]: the step s's load job reports (status text, log)
  job           \* job[s]: locals of s's load job

\* What the direct calls record, the ChatEngine, the session state and jobs.
directVars == <<prev, sr, text_chunker>>
chatVars == <<conversation_history, chat>>
sessionVars == <<processed, processed_file, chat_history, initialization_complete>>
jobVars == <<uploads, phase, job>>

vars == <<collection, pc, caller, ad, directVars, chatVars, sessionVars, jobVars>>

\* ------------------------------------------------------------ data
Min(a, b) == IF a < b THEN a ELSE b

\* A string is the sequence of its characters.
Digits == <<"0", "1", "2", "3", "4", "5", "6", "7", "8", "9">>

\* str(n) of a non-negative int: its decimal digits, most significant first.
RECURSIVE str(_)
str(n) == IF n < 10 THEN <<Digits[n + 1]>>
          ELSE str(n \div 10) \o <<Digits[(n % 10) + 1]>>

\* A chunk {"page_content": text, "metadata": {"page": p}}.
Chunk(text, page) == [page_content |-> text, metadata |-> [page |-> page]]

\* A text is <<document name, page, number of the piece on that page>>.
\* Chunks handed to add_documents directly: two texts of page 1.
DirectChunks == {Chunk(<<"a", 1, 1>>, 1), Chunk(<<"b", 1, 1>>, 1)}

\* Chunks of an index that is searched: those, and one whose metadata has no
\* page.
ChatChunks ==
  DirectChunks \cup {[page_content |-> <<"c", 2, 1>>, metadata |-> [source |-> "c"]]}

Queries == {"q1", "q2"}

SeqsUpTo(S, n) == UNION {[1..m -> S] : m \in 0..n}

BatchSizes == (1..MaxBatch) \cup {DefaultBatchSize}

NoCall == [chunks |-> <<>>, batch_size |-> 0, i |-> 0, ids |-> {},
           outcome |-> "none", failed_at |-> "none"]

\* {'documents': [docs], 'metadatas': [metas], 'distances': [dists]}
SearchResult(docs, metas, dists) ==
  [documents |-> <<docs>>, metadatas |-> <<metas>>, distances |-> <<dists>>]

EmptySearchResult == SearchResult(<<>>, <<>>, <<>>)

NoSearch == [called |-> FALSE, raised |-> FALSE, k |-> 0, failed |-> "none",
             result |-> EmptySearchResult]

NoInfoText == "Sorry, I couldn't find relevant information to answer your question."

ErrorText == "Sorry, I encountered an error while processing your request. Please try again."

\* What the generative model answers when it answers.
Answers == {"answer"}

NoJob == [kind |-> "none", file |-> "None", has_data |-> FALSE, doc_count |-> 0,
          extracted |-> FALSE, documents |-> <<>>, chunks |-> <<>>, i |-> 0,
          existing_count |-> 0, prior |-> <<>>, asked |-> 0]

NoChat == [called |-> FALSE, raised |-> FALSE, query |-> "", failed |-> "none",
           retrieved |-> EmptySearchResult, llm_called |-> FALSE,
           turns_before |-> 0, response |-> "", sources |-> <<>>]

\* ------------------------------------------------------------ collection
\* collection.count()
Count(coll) == Cardinality(DOMAIN coll)

\* collection.delete(ids=ids)
CollectionDelete(coll, ids) == [id \in (DOMAIN coll) \ ids |-> coll[id]]

\* collection.add(ids, documents, metadatas) when it returns: an id the
\* collection already holds keeps its old entry (Chroma logs "Add of existing
\* embedding ID" and skips it), every other id gets its new entry.
CollectionAdd(coll, ids, batch) ==
  coll @@ [id \in {ids[j] : j \in 1..Len(ids)} |->
             LET j == CHOOSE j \in 1..Len(ids) : ids[j] = id
             IN  [document |-> batch[j].page_content,
                  metadata |-> batch[j].metadata]]

\* The embedding of a text or a query, as the direction of a unit vector in
\* degrees (a multiple of 60).
Angle(name, piece) ==
  LET base == CASE name = "a" -> 0 [] name = "b" -> 120 [] name = "q1" -> 0
                [] name = "q2" -> 180 [] OTHER -> 60
  IN  (base + 60 * (piece - 1)) % 360

\* The angle between two directions, in 0..180.
Fold(d) == IF d > 180 THEN 360 - d ELSE d

Between(x, y) == IF x < y THEN Fold(y - x) ELSE Fold(x - y)

\* 100 * (1 - cos(angle)) of an angle that is a multiple of 60.
OneMinusCos(angle) ==
  CASE angle = 0 -> 0 [] angle = 60 -> 50 [] angle = 120 -> 150 [] OTHER -> 200

\* Cosine distance ("hnsw:space": "cosine") between a query and a text, in
\* hundredths, in 0..200.
Distance(query, text) == OneMinusCos(Between(Angle(query, 1), Angle(text[1], text[3])))

\* The int an id written by str() stands for.
RECURSIVE IdValue(_)
IdValue(id) ==
  IF Len(id) = 0 THEN 0
  ELSE 10 * IdValue(SubSeq(id, 1, Len(id) - 1))
       + ((CHOOSE d \in 1..10 : Digits[d] = id[Len(id)]) - 1)

\* What the order of the entries of a query goes by: the distance of the
\* entry, and the int of its id.
Rank(coll, query) ==
  [x \in DOMAIN coll |->
     [distance |-> Distance(query, coll[x].document), n |-> IdValue(x)]]

\* An entry of rank rx is at least as near to the query as one of rank ry
\* (equal distances in the order of the ids).
Nearer(rx, ry) ==
  \/ rx.distance < ry.distance
  \/ rx.distance = ry.distance /\ rx.n <= ry.n

\* The k ids of `ids` nearest to the query, nearest first.
RECURSIVE Nearest(_, _, _)
Nearest(rank, ids, k) ==
  IF k = 0 \/ ids = {} THEN <<>>
  ELSE LET m == CHOOSE x \in ids : \A y \in ids : Nearer(rank[x], rank[y])
       IN  <<m>> \o Nearest(rank, ids \ {m}, k - 1)

\* collection.query(query_embeddings=[e], n_results=k, include=[...]) when it
\* returns: at most k entries, at most all of them (none when there is
\* nothing to rank).
CollectionQuery(coll, query, k) ==
  LET rank == Rank(coll, query)
      top == Nearest(rank, DOMAIN coll, k)
  IN  IF rank = <<>> THEN EmptySearchResult
      ELSE SearchResult([n \in 1..Len(top) |-> coll[top[n]].document],
                        [n \in 1..Len(top) |-> coll[top[n]].metadata],
                        [n \in 1..Len(top) |-> rank[top[n]].distance])

\* ------------------------------------------------------------ VectorStore
\* get_document_count: count(), or 0 when count() raises.
get_document_count(coll, count_ok) == IF count_ok THEN Count(coll) ELSE 0

\* has_documents: count() > 0, or False when count() raises.
has_documents(coll, count_ok) == IF count_ok THEN Count(coll) > 0 ELSE FALSE

\* batch = chunks[i:i + batch_size]
BatchOf(chunks, i, batch_size) ==
  SubSeq(chunks, i + 1, Min(i + batch_size, Len(chunks)))

\* batch_ids = [str(i + j) for j in range(len(batch))]
BatchIds(i, batch) == [j \in 1..Len(batch) |-> str(i + (j - 1))]

\* add_documents leaves through its except clause: raise e.
AdRaise(s, where) ==
  /\ ad' = [ad EXCEPT ![s].outcome = "raised", ![s].failed_at = where]
  /\ pc' = [pc EXCEPT ![s] = IF caller[s] = "direct" THEN "idle" ELSE "ad_raised"]

\* existing_count = self.get_document_count(); if existing_count > 0: ...
AdCount(s) ==
  /\ pc[s] = "ad_count"
  /\ \E count_ok \in BOOLEAN :
       pc' = [pc EXCEPT ![s] =
                IF get_document_count(collection, count_ok) > 0
                THEN "ad_get" ELSE "ad_batch"]
  /\ UNCHANGED <<collection, caller, ad, directVars, chatVars, sessionVars, jobVars>>

\* results = self.collection.get(); if results['ids']: ...
AdGet(s) ==
  /\ pc[s] = "ad_get"
  /\ \/ /\ ad' = [ad EXCEPT ![s].ids = DOMAIN collection]
        /\ pc' = [pc EXCEPT ![s] =
                    IF DOMAIN collection # {} THEN "ad_delete" ELSE "ad_batch"]
     \/ AdRaise(s, "get")
  /\ UNCHANGED <<collection, caller, directVars, chatVars, sessionVars, jobVars>>

\* self.collection.delete(ids=results['ids'])
AdDelete(s) ==
  /\ pc[s] = "ad_delete"
  /\ \/ /\ collection' = CollectionDelete(collection, ad[s].ids)
        /\ pc' = [pc EXCEPT ![s] = "ad_batch"]
        /\ UNCHANGED ad
     \/ /\ AdRaise(s, "delete")
        /\ UNCHANGED collection
  /\ UNCHANGED <<caller, directVars, chatVars, sessionVars, jobVars>>

\* One turn of "for i in range(0, len(chunks), batch_size)": the add of one
\* batch, which returns or raises (embedding or store failure, or an id the
\* collection already holds being rejected); past the last batch the call
\* returns.
AdBatch(s) ==
  /\ pc[s] = "ad_batch"
  /\ LET c == ad[s]
         batch == BatchOf(c.chunks, c.i, c.batch_size)
         ids == BatchIds(c.i, batch)
     IN  IF c.i < Len(c.chunks)
         THEN \/ /\ collection' = CollectionAdd(collection, ids, batch)
                 /\ Count(collection') <= MaxEntries
                 /\ ad' = [ad EXCEPT ![s].i = c.i + c.batch_size]
                 /\ UNCHANGED pc
              \/ /\ AdRaise(s, "add")
                 /\ UNCHANGED collection
         ELSE /\ ad' = [ad EXCEPT ![s].outcome = "ok"]
              /\ pc' = [pc EXCEPT ![s] =
                          IF caller[s] = "direct" THEN "idle" ELSE "ad_returned"]
              /\ UNCHANGED collection
  /\ UNCHANGED <<caller, directVars, chatVars, sessionVars, jobVars>>

add_documents(s) == AdCount(s) \/ AdGet(s) \/ AdDelete(s) \/ AdBatch(s)

\* A direct call vector_store.add_documents(chunks, batch_size).
CallAddDocuments(s) ==
  /\ pc[s] = "idle"
  /\ \E chunks \in SeqsUpTo(DirectChunks, MaxChunks), batch_size \in BatchSizes :
       ad' = [ad EXCEPT ![s] = [NoCall EXCEPT !.chunks = chunks,
                                              !.batch_size = batch_size]]
  /\ prev' = [prev EXCEPT ![s] = [chunks |-> ad[s].chunks,
                                  outcome |-> ad[s].outcome,
                                  content |-> collection]]
  /\ caller' = [caller EXCEPT ![s] = "direct"]
  /\ pc' = [pc EXCEPT ![s] = "ad_count"]
  /\ UNCHANGED <<collection, sr, text_chunker, chatVars, sessionVars, jobVars>>

\* similarity_search, were what raises inside the try raised to the caller.
similarity_search_reraise(coll, query, k, encode_ok, query_ok) ==
  IF encode_ok /\ query_ok
  THEN [raised |-> FALSE, result |-> CollectionQuery(coll, query, k)]
  ELSE [raised |-> TRUE, result |-> EmptySearchResult]

\* similarity_search(query, k): the query's embedding, then the collection's
\* answer; whatever raises inside the try is logged and an empty result
\* returned.
similarity_search(coll, query, k, encode_ok, query_ok) ==
  IF encode_ok /\ query_ok
  THEN [raised |-> FALSE, result |-> CollectionQuery(coll, query, k)]
  ELSE [raised |-> FALSE, result |-> EmptySearchResult]

\* A direct call vector_store.similarity_search(query, k).
CallSimilaritySearch(s) ==
  /\ pc[s] = "idle"
  /\ \E query \in Queries, k \in (1..MaxK) \cup {DefaultK},
        encode_ok \in BOOLEAN, query_ok \in BOOLEAN :
       LET r == similarity_search(collection, query, k, encode_ok, query_ok)
       IN  sr' = [sr EXCEPT ![s] =
                    [called |-> TRUE, raised |-> r.raised, k |-> k,
                     failed |-> IF ~encode_ok THEN "encode"
                                ELSE IF ~query_ok THEN "query" ELSE "none",
                     result |-> r.result]]
  /\ UNCHANGED <<collection, pc, caller, ad, prev, text_chunker, chatVars,
                 sessionVars, jobVars>>

\* The index add_documents(chunks, ...) is to leave: ids "0" .. "n-1", entry i
\* with the text and metadata of chunks[i].
ExpectedIndex(chunks) ==
  [id \in {str(n) : n \in 0..(Len(chunks) - 1)} |->
     LET n == CHOOSE n \in 0..(Len(chunks) - 1) : str(n) = id
     IN  [document |-> chunks[n + 1].page_content,
          metadata |-> chunks[n + 1].metadata]]

\* ------------------------------------------------------------ ChatEngine
\* f"{(1 - d) * 100:.1f}%" of a distance d given in hundredths.
FormatSimilarity(d) ==
  LET v == 100 - d
  IN  (IF v < 0 THEN <<"-">> ELSE <<>>) \o str(IF v < 0 THEN 0 - v ELSE v)
      \o <<".", "0", "%">>

\* Step 7: one source per metadata that has a page, in the order of the
\* metadatas, with the similarity of the distance at the same position when
\* there is one.
HasPage(ranked) == "page" \in DOMAIN ranked.metadata

SourceInfo(ranked, distances) ==
  IF ranked.i <= Len(distances)
  THEN [page |-> ranked.metadata.page,
        similarity |-> FormatSimilarity(distances[ranked.i])]
  ELSE [page |-> ranked.metadata.page]

\* FormatSources, were each source given the distance at its own position
\* among the sources.
FormatSources_misaligned(metadatas, distances) ==
  LET ranked == [i \in 1..Len(metadatas) |-> [i |-> i, metadata |-> metadatas[i]]]
      kept == SelectSeq(ranked, HasPage)
  IN  [n \in 1..Len(kept) |->
         [page |-> kept[n].metadata.page,
          similarity |-> FormatSimilarity(distances[n])]]

FormatSources(metadatas, distances) ==
  LET ranked == [i \in 1..Len(metadatas) |-> [i |-> i, metadata |-> metadatas[i]]]
      kept == SelectSeq(ranked, HasPage)
  IN  [n \in 1..Len(kept) |-> SourceInfo(kept[n], distances)]

\* What generate_response returns through a fallback: the text, no sources, the
\* history as it was.
Fallback(text, history, search, invoked) ==
  [raised |-> FALSE, response |-> text, sources |-> <<>>, history |-> history,
   llm_called |-> invoked, retrieved |-> search.result]

\* Answered, were the history started anew with the turn.
Answered_forgetting(search, history, query, answer) ==
  [raised |-> FALSE, response |-> answer,
   sources |-> FormatSources(search.result.metadatas[1], search.result.distances[1]),
   history |-> <<[user |-> query, assistant |-> answer]>>,
   llm_called |-> TRUE, retrieved |-> search.result]

\* What generate_response returns when the model has answered: the answer, the
\* sources, the history with one more turn.
Answered(search, history, query, answer) ==
  [raised |-> FALSE, response |-> answer,
   sources |-> FormatSources(search.result.metadatas[1], search.result.distances[1]),
   history |-> Append(history, [user |-> query, assistant |-> answer]),
   llm_called |-> TRUE, retrieved |-> search.result]

\* respond, were the failure of the model invocation raised to the caller.
respond_without_catch(search, history, query, env) ==
  IF search.raised THEN Fallback(ErrorText, history, search, FALSE)
  ELSE IF search.result.documents[1] = <<>>
  THEN Fallback(NoInfoText, history, search, FALSE)
  ELSE IF ~env.prompt_ok THEN Fallback(ErrorText, history, search, FALSE)
  ELSE IF ~env.llm_ok
  THEN [raised |-> TRUE, response |-> "", sources |-> <<>>, history |-> history,
        llm_called |-> TRUE, retrieved |-> search.result]
  ELSE Answered(search, history, query, env.answer)

\* respond, were an empty retrieval not answered with the fallback.
respond_without_empty_check(search, history, query, env) ==
  IF search.raised THEN Fallback(ErrorText, history, search, FALSE)
  ELSE IF ~env.prompt_ok THEN Fallback(ErrorText, history, search, FALSE)
  ELSE IF ~env.llm_ok THEN Fallback(ErrorText, history, search, TRUE)
  ELSE Answered(search, history, query, env.answer)

\* generate_response from the return of its similarity_search call on (steps
\* 2 to 7 and the except clause around all of them), on an engine whose history
\* is `history`.  env says which of the calls return (prompt, llm) and what
\* the model answers.  The result: what the caller gets (raised, response,
\* sources), the engine's history afterwards, whether the model was invoked,
\* and what was retrieved.
respond(search, history, query, env) ==
  IF search.raised THEN Fallback(ErrorText, history, search, FALSE)
  ELSE IF search.result.documents[1] = <<>>
  THEN Fallback(NoInfoText, history, search, FALSE)
  ELSE IF ~env.prompt_ok THEN Fallback(ErrorText, history, search, FALSE)
  ELSE IF ~env.llm_ok THEN Fallback(ErrorText, history, search, TRUE)
  ELSE Answered(search, history, query, env.answer)

\* generate_response(query): the similarity search with the default k, then
\* the rest.
generate_response(coll, history, query, env) ==
  respond(similarity_search(coll, query, DefaultK, env.encode_ok, env.query_ok),
          history, query, env)

\* The outcomes of the calls generate_response makes.
ChatEnvs ==
  [encode_ok : BOOLEAN, query_ok : BOOLEAN, prompt_ok : BOOLEAN,
   llm_ok : BOOLEAN, answer : Answers]

\* The first call that raises under env, when the run gets to it.
FailedCall(env, r) ==
  IF ~env.encode_ok THEN "encode"
  ELSE IF ~env.query_ok THEN "query"
  ELSE IF r.retrieved.documents[1] = <<>> THEN "none"
  ELSE IF ~env.prompt_ok THEN "prompt"
  ELSE IF ~env.llm_ok THEN "llm" ELSE "none"

\* What chat[s] keeps of a call.
ChatRecord(query, env, history, r) ==
  [called |-> TRUE, raised |-> r.raised, query |-> query,
   failed |-> FailedCall(env, r), retrieved |-> r.retrieved,
   llm_called |-> r.llm_called, turns_before |-> Len(history),
   response |-> r.response, sources |-> r.sources]

\* A direct call chat_engine.generate_response(query).
CallGenerateResponse(s) ==
  /\ pc[s] = "idle"
  /\ Len(conversation_history[s]) < MaxTurns
  /\ \E query \in Queries, env \in ChatEnvs :
       LET r == generate_response(collection, conversation_history[s], query, env)
       IN  /\ chat' = [chat EXCEPT ![s] =
                         ChatRecord(query, env, conversation_history[s], r)]
           /\ conversation_history' = [conversation_history EXCEPT ![s] = r.history]
  /\ UNCHANGED <<collection, pc, caller, ad, directVars, sessionVars, jobVars>>

\* ------------------------------------------------------------ PDF files
\* The PDF files a user may upload.  A file opens and parses or not; each of
\* its pages has a text of so many tokens, and page.extract_text() returns it
\* or raises.
PdfNames == {"B", "C", "L"}

Page(ok, tokens) == [ok |-> ok, tokens |-> tokens]

Pdf(name) ==
  CASE name = "B" -> [openable |-> FALSE, pages |-> <<Page(TRUE, 300)>>]
    [] name = "C" -> [openable |-> TRUE,
                      pages |-> <<Page(TRUE, 1200), Page(FALSE, 300), Page(TRUE, 300)>>]
    [] name = "L" -> [openable |-> TRUE,
                      pages |-> <<Page(TRUE, 0), Page(TRUE, 21000)>>]

\* "for i, page in enumerate(reader.pages): documents.append(...)" from page i
\* on: a page whose extract_text() raises ends the loop.
RECURSIVE ExtractPages(_, _, _)
ExtractPages(name, pages, i) ==
  IF i > Len(pages) \/ ~pages[i].ok THEN <<>>
  ELSE <<[page_content |-> [name |-> name, page |-> i, tokens |-> pages[i].tokens],
          metadata |-> [page |-> i]]>>
       \o ExtractPages(name, pages, i + 1)

\* extract_text_with_metadata(pdf_path): whatever raises inside the try is
\* logged, and the documents appended so far are returned.
extract_text_with_metadata(name) ==
  IF ~Pdf(name).openable THEN [raised |-> FALSE, documents |-> <<>>]
  ELSE [raised |-> FALSE, documents |-> ExtractPages(name, Pdf(name).pages, 1)]

\* The number of pieces the splitter cuts a text of `tokens` tokens into:
\* pieces of at most chunk_size tokens, each starting chunk_size -
\* chunk_overlap tokens after the one before.
NPieces(tokens, chunk_size, chunk_overlap) ==
  IF tokens = 0 THEN 0
  ELSE IF tokens <= chunk_size THEN 1
  ELSE 1 + ((tokens - chunk_size) + (chunk_size - chunk_overlap) - 1)
             \div (chunk_size - chunk_overlap)

\* create_chunks(documents): the pieces of each document in turn, each with
\* the metadata of its document.
RECURSIVE create_chunks(_, _, _)
create_chunks(documents, chunk_size, chunk_overlap) ==
  IF documents = <<>> THEN <<>>
  ELSE LET doc == Head(documents)
           n == NPieces(doc.page_content.tokens, chunk_size, chunk_overlap)
       IN  [k \in 1..n |->
              [page_content |-> <<doc.page_content.name, doc.page_content.page, k>>,
               metadata |-> doc.metadata]]
           \o create_chunks(Tail(documents), chunk_size, chunk_overlap)

\* No TextChunker made yet.
NoChunker == [made |-> FALSE, chunk_size |-> 0, chunk_overlap |-> 0,
              documents |-> <<>>, rejected |-> "none", chunks |-> <<>>]

\* TextChunker(chunk_size, chunk_overlap): the two numbers are stored as they
\* come, and nothing is raised.
TextChunker_init(chunk_size, chunk_overlap) ==
  [raised |-> FALSE, chunk_size |-> chunk_size, chunk_overlap |-> chunk_overlap]

\* RecursiveCharacterTextSplitter(chunk_size, chunk_overlap, ...), made at the
\* start of each create_chunks call: it raises ValueError for an overlap
\* larger than the chunk size.
SplitterRaises(chunk_size, chunk_overlap) == chunk_overlap > chunk_size

\* The configurations and the documents a TextChunker is tried with.
ChunkerSizes == {100, ChunkSize}

ChunkerOverlaps == {0, 100, ChunkOverlap, ChunkSize, 2 * ChunkSize}

ChunkerDocuments ==
  {[i \in 1..Len(t) |->
      [page_content |-> [name |-> "d", page |-> i, tokens |-> t[i]],
       metadata |-> [page |-> i]]] : t \in SeqsUpTo({0, 40, 70, 100}, MaxPages)}

\* A direct TextChunker(chunk_size, chunk_overlap).
NewTextChunker(s) ==
  /\ pc[s] = "idle"
  /\ \E chunk_size \in ChunkerSizes, chunk_overlap \in ChunkerOverlaps :
       LET r == TextChunker_init(chunk_size, chunk_overlap)
       IN  text_chunker' = [text_chunker EXCEPT ![s] =
             [NoChunker EXCEPT !.made = ~r.raised,
                               !.chunk_size = r.chunk_size,
                               !.chunk_overlap = r.chunk_overlap,
                               !.rejected = IF r.raised THEN "init" ELSE "none"]]
  /\ UNCHANGED <<collection, pc, caller, ad, prev, sr, chatVars, sessionVars,
                 jobVars>>

\* A direct text_chunker.create_chunks(documents) on the chunker made.
CallCreateChunks(s) ==
  /\ pc[s] = "idle"
  /\ text_chunker[s].made
  /\ \E documents \in ChunkerDocuments :
       LET c == text_chunker[s]
       IN  text_chunker' = [text_chunker EXCEPT ![s] =
             IF SplitterRaises(c.chunk_size, c.chunk_overlap)
             THEN [c EXCEPT !.documents = documents,
                            !.rejected = "create_chunks", !.chunks = <<>>]
             ELSE [c EXCEPT !.documents = documents, !.chunks =
                     create_chunks(documents, c.chunk_size, c.chunk_overlap)]]
  /\ UNCHANGED <<collection, pc, caller, ad, prev, sr, chatVars, sessionVars,
                 jobVars>>

\* ------------------------------------------------------------ app.py
DefaultFile == "2025_Benefits_Book_en.pdf"

\* check_existing_data(): (has_data, count) of a new VectorStore, or
\* (False, 0) when making it raises.
check_existing_data(coll, env) ==
  IF ~env.store_ok THEN [has_data |-> FALSE, doc_count |-> 0]
  ELSE [has_data |-> has_documents(coll, env.count1_ok),
        doc_count |-> get_document_count(coll, env.count2_ok)]

CheckEnvs == [store_ok : BOOLEAN, count1_ok : BOOLEAN, count2_ok : BOOLEAN]

\* The test of the skip, inverted.
AlreadyLoaded_inverted(check) == ~(check.has_data /\ check.doc_count > 0)

\* "if has_data and doc_count > 0": the data is there, nothing is processed.
AlreadyLoaded(check) == check.has_data /\ check.doc_count > 0

\* Each run of the script makes its components anew: the ChatEngine of a run
\* starts with an empty conversation_history.
NewRun(s) ==
  /\ conversation_history' = [conversation_history EXCEPT ![s] = <<>>]
  /\ chat' = [chat EXCEPT ![s] = NoChat]

\* The job (its record j) has ended with `status`, and the script run with
\* it: the run's locals are gone, what the job was about is kept.
JobEnds(s, status, j) ==
  /\ phase' = [phase EXCEPT ![s] = status]
  /\ pc' = [pc EXCEPT ![s] = "idle"]
  /\ job' = [job EXCEPT ![s] = [j EXCEPT !.documents = <<>>, !.chunks = <<>>,
                                         !.i = 0, !.existing_count = 0]]
  /\ ad' = [ad EXCEPT ![s] = NoCall]

\* st.session_state.initialization_complete = True
InitializationComplete(s) ==
  initialization_complete' = [initialization_complete EXCEPT ![s] = TRUE]

\* The session is marked as having a processed file.
MarkProcessed(s, file) ==
  /\ processed' = [processed EXCEPT ![s] = TRUE]
  /\ processed_file' = [processed_file EXCEPT ![s] = file]

\* A browser opens (or reloads) the page: a new session, empty session state.
NewSession(s) ==
  /\ pc[s] = "idle"
  /\ pc' = [pc EXCEPT ![s] = "new"]
  /\ processed' = [processed EXCEPT ![s] = FALSE]
  /\ processed_file' = [processed_file EXCEPT ![s] = "None"]
  /\ chat_history' = [chat_history EXCEPT ![s] = <<>>]
  /\ initialization_complete' = [initialization_complete EXCEPT ![s] = FALSE]
  /\ phase' = [phase EXCEPT ![s] = "NotStarted"]
  /\ job' = [job EXCEPT ![s] = NoJob]
  /\ NewRun(s)
  /\ UNCHANGED <<collection, caller, ad, directVars, uploads>>

\* main(), first run of a session: "if not initialization_complete", the quick
\* check, and the branch it chooses.
SessionStart(s) ==
  /\ pc[s] = "new"
  /\ ~initialization_complete[s]
  /\ \E env \in CheckEnvs :
       LET check == check_existing_data(collection, env)
           j == [NoJob EXCEPT !.kind = "auto", !.prior = collection,
                              !.asked = Len(chat_history[s]),
                              !.has_data = check.has_data,
                              !.doc_count = check.doc_count]
       IN  IF AlreadyLoaded(check)
           THEN /\ MarkProcessed(s, DefaultFile)
                /\ InitializationComplete(s)
                /\ JobEnds(s, "Complete", j)
           ELSE IF ~processed[s]
           THEN /\ job' = [job EXCEPT ![s] = j]
                /\ pc' = [pc EXCEPT ![s] = "auto_check"]
                /\ UNCHANGED <<processed, processed_file, initialization_complete,
                               phase, ad>>
           ELSE /\ job' = [job EXCEPT ![s] = j]
                /\ InitializationComplete(s)
                /\ pc' = [pc EXCEPT ![s] = "idle"]
                /\ UNCHANGED <<processed, processed_file, phase, ad>>
  /\ UNCHANGED <<collection, caller, directVars, chatVars, chat_history, uploads>>

\* auto_process_existing_pdf() up to the call of process_pdf_with_progress:
\* the check again, then the first PDF file of ./data/uploads, if any.
AutoCheck(s) ==
  /\ pc[s] = "auto_check"
  /\ \E env \in CheckEnvs :
       LET check == check_existing_data(collection, env)
           j == [job[s] EXCEPT !.has_data = check.has_data,
                               !.doc_count = check.doc_count]
       IN  IF AlreadyLoaded(check)
           THEN /\ MarkProcessed(s, DefaultFile)
                /\ InitializationComplete(s)
                /\ JobEnds(s, "Complete", j)
           ELSE IF uploads = {} \/ processed[s]
           THEN /\ job' = [job EXCEPT ![s] = j]
                /\ pc' = [pc EXCEPT ![s] = "idle"]
                /\ InitializationComplete(s)
                /\ UNCHANGED <<processed, processed_file, phase, ad>>
           ELSE \E file \in uploads :
                  /\ job' = [job EXCEPT ![s] = [j EXCEPT !.file = file]]
                  /\ phase' = [phase EXCEPT ![s] = "Extracting"]
                  /\ pc' = [pc EXCEPT ![s] = "extract"]
                  /\ UNCHANGED <<processed, processed_file,
                                 initialization_complete, ad>>
  /\ UNCHANGED <<collection, caller, directVars, chatVars, chat_history, uploads>>

\* The except clause around a job: the error is shown, nothing is retried
\* (and the first run of the session is over all the same).
JobFails(s) ==
  /\ JobEnds(s, "Failed", job[s])
  /\ initialization_complete' =
       [initialization_complete EXCEPT ![s] = (@ \/ job[s].kind = "auto")]

\* documents = pdf_processor.extract_text_with_metadata(file)
Extract(s) ==
  /\ pc[s] = "extract"
  /\ LET r == extract_text_with_metadata(job[s].file)
     IN  IF r.raised
         THEN JobFails(s)
         ELSE /\ job' = [job EXCEPT ![s].documents = r.documents,
                                    ![s].extracted = TRUE]
              /\ phase' = [phase EXCEPT ![s] = "Chunking"]
              /\ pc' = [pc EXCEPT ![s] = "chunk"]
              /\ UNCHANGED <<initialization_complete, ad>>
  /\ UNCHANGED <<collection, caller, directVars, chatVars, processed,
                 processed_file, chat_history, uploads>>

\* chunks = text_chunker.create_chunks(documents), which returns or raises;
\* then the manual job calls add_documents(chunks) and the automatic one
\* enters its batch loop.
CreateChunks(s) ==
  /\ pc[s] = "chunk"
  /\ \/ /\ job' = [job EXCEPT ![s].chunks =
                     create_chunks(job[s].documents, ChunkSize, ChunkOverlap)]
        /\ phase' = [phase EXCEPT ![s] = "Indexing"]
        /\ IF job[s].kind = "manual"
           THEN /\ ad' = [ad EXCEPT ![s] =
                            [NoCall EXCEPT !.chunks = job'[s].chunks,
                                           !.batch_size = DefaultBatchSize]]
                /\ caller' = [caller EXCEPT ![s] = "manual"]
                /\ pc' = [pc EXCEPT ![s] = "ad_count"]
           ELSE /\ pc' = [pc EXCEPT ![s] = "auto_loop"]
                /\ UNCHANGED <<ad, caller>>
        /\ UNCHANGED initialization_complete
     \/ /\ JobFails(s)
        /\ UNCHANGED caller
  /\ UNCHANGED <<collection, directVars, chatVars, processed, processed_file,
                 chat_history, uploads>>

\* process_pdf_with_progress, one turn of "for i in range(0, len(chunks),
\* batch_size)" up to its call on the store: the first batch goes through
\* add_documents, a later one asks the count for its ids; past the last batch
\* the job is complete, unless the loop never ran: "time" is imported inside
\* the loop and local to the function, so that time.sleep(1) after a loop of
\* no turn raises (UnboundLocalError) into the except clause.
AutoLoop(s) ==
  /\ pc[s] = "auto_loop"
  /\ LET j == job[s]
         batch == BatchOf(j.chunks, j.i, ProgressBatchSize)
     IN  IF j.i < Len(j.chunks)
         THEN IF j.i = 0
              THEN /\ ad' = [ad EXCEPT ![s] =
                               [NoCall EXCEPT !.chunks = batch,
                                              !.batch_size = ProgressBatchSize]]
                   /\ caller' = [caller EXCEPT ![s] = "auto"]
                   /\ pc' = [pc EXCEPT ![s] = "ad_count"]
                   /\ UNCHANGED <<job, phase, sessionVars>>
              ELSE /\ \E count_ok \in BOOLEAN :
                        job' = [job EXCEPT ![s].existing_count =
                                  get_document_count(collection, count_ok)]
                   /\ pc' = [pc EXCEPT ![s] = "auto_add"]
                   /\ UNCHANGED <<ad, caller, phase, sessionVars>>
         ELSE IF Len(j.chunks) = 0
         THEN /\ JobFails(s)
              /\ UNCHANGED <<caller, processed, processed_file, chat_history>>
         ELSE /\ MarkProcessed(s, j.file)
              /\ InitializationComplete(s)
              /\ JobEnds(s, "Complete", j)
              /\ UNCHANGED <<caller, chat_history>>
  /\ UNCHANGED <<collection, directVars, chatVars, uploads>>

\* vector_store.collection.add(ids=[str(existing_count + j) ...], ...) of a
\* later batch, which returns or raises.
AutoAdd(s) ==
  /\ pc[s] = "auto_add"
  /\ LET j == job[s]
         batch == BatchOf(j.chunks, j.i, ProgressBatchSize)
     IN  \/ /\ collection' =
                 CollectionAdd(collection, BatchIds(j.existing_count, batch), batch)
            /\ Count(collection') <= MaxEntries
            /\ job' = [job EXCEPT ![s].i = j.i + ProgressBatchSize]
            /\ pc' = [pc EXCEPT ![s] = "auto_loop"]
            /\ UNCHANGED <<phase, initialization_complete, ad>>
         \/ /\ JobFails(s)
            /\ UNCHANGED collection
  /\ UNCHANGED <<caller, directVars, chatVars, processed, processed_file,
                 chat_history, uploads>>

\* AddReturned, were the chat of the session kept.
AddReturned_keeping_chat(s) ==
  /\ pc[s] = "ad_returned"
  /\ IF caller[s] = "auto"
     THEN /\ job' = [job EXCEPT ![s].i = job[s].i + ProgressBatchSize]
          /\ pc' = [pc EXCEPT ![s] = "auto_loop"]
          /\ ad' = [ad EXCEPT ![s] = NoCall]
          /\ UNCHANGED <<phase, sessionVars>>
     ELSE /\ MarkProcessed(s, job[s].file)
          /\ UNCHANGED chat_history
          /\ JobEnds(s, "Complete", job[s])
          /\ UNCHANGED initialization_complete
  /\ UNCHANGED <<collection, caller, directVars, chatVars, uploads>>

\* add_documents has returned to the job that called it: the automatic job
\* goes on with its loop, the manual one is complete (and clears the chat).
AddReturned(s) ==
  /\ pc[s] = "ad_returned"
  /\ IF caller[s] = "auto"
     THEN /\ job' = [job EXCEPT ![s].i = job[s].i + ProgressBatchSize]
          /\ pc' = [pc EXCEPT ![s] = "auto_loop"]
          /\ ad' = [ad EXCEPT ![s] = NoCall]
          /\ UNCHANGED <<phase, sessionVars>>
     ELSE /\ MarkProcessed(s, job[s].file)
          /\ chat_history' = [chat_history EXCEPT ![s] = <<>>]
          /\ JobEnds(s, "Complete", job[s])
          /\ UNCHANGED initialization_complete
  /\ UNCHANGED <<collection, caller, directVars, chatVars, uploads>>

\* add_documents has raised into the job that called it.
AddRaised(s) ==
  /\ pc[s] = "ad_raised"
  /\ JobFails(s)
  /\ UNCHANGED <<collection, caller, directVars, chatVars, processed,
                 processed_file, chat_history, uploads>>

\* "Process PDF" on an uploaded file: the file is saved to ./data/uploads and
\* its job starts with the extraction.
ProcessPDF(s, name) ==
  /\ pc[s] = "idle"
  /\ initialization_complete[s]
  /\ uploads' = uploads \cup {name}
  /\ job' = [job EXCEPT ![s] = [NoJob EXCEPT !.kind = "manual", !.file = name,
                                            !.prior = collection,
                                            !.asked = Len(chat_history[s])]]
  /\ phase' = [phase EXCEPT ![s] = "Extracting"]
  /\ pc' = [pc EXCEPT ![s] = "extract"]
  /\ NewRun(s)
  /\ UNCHANGED <<collection, caller, ad, directVars, sessionVars>>

\* ClearCurrentPDF, were the index emptied with the session state.
ClearCurrentPDF_deleting_index(s) ==
  /\ pc[s] = "idle"
  /\ initialization_complete[s]
  /\ processed[s] /\ processed_file[s] # "None"
  /\ processed' = [processed EXCEPT ![s] = FALSE]
  /\ processed_file' = [processed_file EXCEPT ![s] = "None"]
  /\ chat_history' = [chat_history EXCEPT ![s] = <<>>]
  /\ collection' = <<>>
  /\ NewRun(s)
  /\ UNCHANGED <<pc, caller, ad, directVars, initialization_complete, jobVars>>

\* "Clear Current PDF", shown while a file is loaded: the three session fields
\* are reset and the script is run again (st.rerun()); the vector store is
\* not touched.
ClearCurrentPDF(s) ==
  /\ pc[s] = "idle"
  /\ initialization_complete[s]
  /\ processed[s] /\ processed_file[s] # "None"
  /\ processed' = [processed EXCEPT ![s] = FALSE]
  /\ processed_file' = [processed_file EXCEPT ![s] = "None"]
  /\ chat_history' = [chat_history EXCEPT ![s] = <<>>]
  /\ NewRun(s)
  /\ UNCHANGED <<collection, pc, caller, ad, directVars, initialization_complete,
                 jobVars>>

\* A question typed into the chat input: shown, answered by the run's
\* ChatEngine, and the answer shown (or the error, should the call raise).
ChatInput(s) ==
  /\ pc[s] = "idle"
  /\ initialization_complete[s]
  /\ processed[s]
  /\ Len(chat_history[s]) < 2 * MaxAsked
  /\ \E query \in Queries, env \in ChatEnvs :
       LET r == generate_response(collection, <<>>, query, env)
           asked == Append(chat_history[s], [role |-> "user", content |-> query])
       IN  /\ chat' = [chat EXCEPT ![s] = ChatRecord(query, env, <<>>, r)]
           /\ conversation_history' = [conversation_history EXCEPT ![s] = r.history]
           /\ chat_history' = [chat_history EXCEPT ![s] =
                IF r.raised THEN asked
                ELSE Append(asked, [role |-> "assistant", content |-> r.response])]
  /\ UNCHANGED <<collection, pc, caller, ad, directVars, processed, processed_file,
                 initialization_complete, jobVars>>

\* What session s may do next.
SessionStep(s) ==
  \/ NewSession(s)
  \/ SessionStart(s)
  \/ AutoCheck(s)
  \/ Extract(s)
  \/ CreateChunks(s)
  \/ AutoLoop(s)
  \/ AutoAdd(s)
  \/ add_documents(s)
  \/ AddReturned(s)
  \/ AddRaised(s)
  \/ \E name \in PdfNames : ProcessPDF(s, name)
  \/ ClearCurrentPDF(s)
  \/ ChatInput(s)

\* ------------------------------------------------------------ specification
\* Nothing called yet, no job started.
InitSessions ==
  /\ caller = [s \in Sessions |-> "direct"]
  /\ ad = [s \in Sessions |-> NoCall]
  /\ prev = [s \in Sessions |-> [chunks |-> <<>>, outcome |-> "none",
                                 content |-> <<>>]]
  /\ sr = [s \in Sessions |-> NoSearch]
  /\ text_chunker = [s \in Sessions |-> NoChunker]
  /\ conversation_history = [s \in Sessions |-> <<>>]
  /\ chat = [s \in Sessions |-> NoChat]
  /\ uploads = {}
  /\ processed = [s \in Sessions |-> FALSE]
  /\ processed_file = [s \in Sessions |-> "None"]
  /\ chat_history = [s \in Sessions |-> <<>>]
  /\ initialization_complete = [s \in Sessions |-> FALSE]
  /\ phase = [s \in Sessions |-> "NotStarted"]
  /\ job = [s \in Sessions |-> NoJob]

InitStore ==
  /\ collection = <<>>
  /\ pc = [s \in Sessions |-> "idle"]
  /\ InitSessions

\* The VectorStore driven by one caller.
NextStore == CallAddDocuments("s1") \/ add_documents("s1")

SpecStore == InitStore /\ [][NextStore]_vars

\* One VectorStore and one ChatEngine over an index that a load has left
\* (here: of up to MaxChunks chunks), searched and asked up to MaxTurns
\* questions.
InitChat ==
  /\ \E chunks \in SeqsUpTo(ChatChunks, MaxChunks) :
       collection = ExpectedIndex(chunks)
  /\ pc = [s \in Sessions |-> "idle"]
  /\ InitSessions

NextChat == CallSimilaritySearch("s1") \/ CallGenerateResponse("s1")

SpecChat == InitChat /\ [][NextChat]_vars

\* The application: an empty collection, no file uploaded, no session opened.
Init ==
  /\ collection = <<>>
  /\ pc = [s \in Sessions |-> "new"]
  /\ InitSessions

\* One session at a time.
Next == SessionStep("s1")

Spec == Init /\ [][Next]_vars

\* A TextChunker made with any configuration, and called.
NextChunker == NewTextChunker("s1") \/ CallCreateChunks("s1")

SpecChunker == InitStore /\ [][NextChunker]_vars

\* The application with every session open at once: Streamlit runs the script
\* of each session in a thread of its own, all on the one persisted
\* collection, and nothing in the code makes one wait for another.  The file
\* uploaded here is the small one, of a single batch.
ConcPdfNames == {"C"}

ConcStep(s) ==
  \/ NewSession(s)
  \/ SessionStart(s)
  \/ AutoCheck(s)
  \/ Extract(s)
  \/ CreateChunks(s)
  \/ AutoLoop(s)
  \/ add_documents(s)
  \/ AddReturned(s)
  \/ AddRaised(s)
  \/ \E name \in ConcPdfNames : ProcessPDF(s, name)
  \/ ClearCurrentPDF(s)
  \/ ChatInput(s)

NextConc == \E s \in Sessions : ConcStep(s)

SpecConc == Init /\ [][NextConc]_vars

\* ------------------------------------------------------------ claims
\* C1: when add_documents(chunks, batch_size) returns without error, the index
\* holds exactly the entries "0" .. "n-1" of chunks, entry i with the text and
\* metadata of chunks[i], and nothing of the previous corpus.
C1_ReplaceAllExact ==
  \A s \in Sessions :
    ad[s].outcome = "ok" => collection = ExpectedIndex(ad[s].chunks)

\* C2: two add_documents calls in a row with the same chunk list that both
\* return: count() is len(chunks) after the first and after the second, and
\* the content after the second is the content after the first.
C2_IdempotentOverwrite ==
  \A s \in Sessions :
    (/\ ad[s].outcome = "ok"
     /\ prev[s].outcome = "ok"
     /\ prev[s].chunks = ad[s].chunks)
    => /\ Count(prev[s].content) = Len(ad[s].chunks)
       /\ Count(collection) = Len(ad[s].chunks)
       /\ collection = prev[s].content

\* C5: when add_documents raises while adding the batch at offset
\* b * batch_size, the index holds exactly the entries of the batches before
\* it: ids "0" .. "b*batch_size - 1" of the new list and nothing else.
C5_PrefixOnFailedBatch ==
  \A s \in Sessions :
    (ad[s].outcome = "raised" /\ ad[s].failed_at = "add")
    => collection = ExpectedIndex(SubSeq(ad[s].chunks, 1, ad[s].i))

\* C10: similarity_search on an index with no entry returns an empty result
\* (documents, metadatas and distances all empty) and does not raise, for
\* every query and every k > 0.
C10_EmptyIndexSearch ==
  \A s \in Sessions :
    (sr[s].called /\ Count(collection) = 0)
    => /\ ~sr[s].raised
       /\ sr[s].result.documents[1] = <<>>
       /\ sr[s].result.metadatas[1] = <<>>
       /\ sr[s].result.distances[1] = <<>>

\* A search of the empty index in which collection.query raised.
C10_Witness ==
  \E s \in Sessions :
    /\ sr[s].called /\ Count(collection) = 0
    /\ sr[s].failed = "query" /\ sr[s].k = DefaultK

PhaseOrder ==
  {<<"NotStarted", "Extracting">>, <<"Extracting", "Chunking">>,
   <<"Chunking", "Indexing">>, <<"Indexing", "Complete">>,
   <<"NotStarted", "Complete">>,
   <<"Extracting", "Failed">>, <<"Chunking", "Failed">>, <<"Indexing", "Failed">>}

\* Every chunk of the job of s has been handed to the store, and the call
\* returned.
AllBatchesInserted(s) ==
  IF job[s].kind = "manual"
  THEN /\ ad[s].outcome = "ok"
       /\ ad[s].chunks = job[s].chunks
       /\ ad[s].i >= Len(ad[s].chunks)
  ELSE job[s].i >= Len(job[s].chunks)

\* C4: a job changes its phase only along NotStarted, Extracting, Chunking,
\* Indexing, Complete (or NotStarted to Complete, the skip) or to Failed from
\* Extracting, Chunking or Indexing; a job that is Complete or Failed has no
\* step left; Indexing becomes Complete only when every batch has been
\* inserted; and Failed is where each working phase goes when its work fails:
\* the extraction of a file that cannot be opened takes Extracting to Failed.
C4_PhaseOrder ==
  [][\A s \in Sessions :
       /\ (pc[s] # "idle" /\ phase'[s] # phase[s])
            => <<phase[s], phase'[s]>> \in PhaseOrder
       /\ (pc[s] = "idle" /\ phase'[s] # phase[s])
            => /\ pc'[s] \in {"new", "extract"}
               /\ phase'[s] = (IF pc'[s] = "new" THEN "NotStarted" ELSE "Extracting")
       /\ phase'[s] \in {"Complete", "Failed"} => pc'[s] = "idle"
       /\ (phase[s] = "Indexing" /\ phase'[s] = "Complete") => AllBatchesInserted(s)
       /\ (pc[s] = "extract" /\ ~Pdf(job[s].file).openable)
            => phase'[s] = "Failed"]_vars

\* C4 without its failing part: the order of the phases, the terminal phases,
\* and Complete only after the last batch, which the code keeps; and no job
\* ever goes from Extracting to Failed.
C4_OrderKept ==
  [][\A s \in Sessions :
       /\ (pc[s] # "idle" /\ phase'[s] # phase[s])
            => <<phase[s], phase'[s]>> \in PhaseOrder \ {<<"Extracting", "Failed">>}
       /\ phase'[s] \in {"Complete", "Failed"} => pc'[s] = "idle"
       /\ (phase[s] = "Indexing" /\ phase'[s] = "Complete") => AllBatchesInserted(s)]_vars

\* A job on a file that cannot be opened, past its extraction.
C4_Witness ==
  \E s \in Sessions :
    /\ job[s].file \in PdfNames /\ ~Pdf(job[s].file).openable
    /\ phase[s] = "Chunking"

\* C6: a job on a file that cannot be opened or parsed ends with a failed
\* extraction and in Failed: it is not Complete, it has not marked the session
\* processed, and the index holds what it held before the job.
C6_UnopenableFails ==
  \A s \in Sessions :
    (/\ job[s].file \in PdfNames /\ ~Pdf(job[s].file).openable
     /\ pc[s] = "idle")
    => /\ ~job[s].extracted
       /\ phase[s] = "Failed"
       /\ ~(processed[s] /\ processed_file[s] = job[s].file)
       /\ collection = job[s].prior

\* A manual job on a file that cannot be opened has ended Complete, with the
\* entries the index held before it gone.
C6_Witness ==
  \E s \in Sessions :
    /\ job[s].kind = "manual" /\ job[s].file \in PdfNames
    /\ ~Pdf(job[s].file).openable
    /\ pc[s] = "idle" /\ phase[s] = "Complete" /\ processed[s]
    /\ Count(job[s].prior) > 0 /\ Count(collection) = 0

\* C7: what extract_text_with_metadata returns for a file of N pages that
\* opens: N records, record i of page i, the record of a page whose text
\* extraction failed with an empty text.
C7_AllPagesExtracted ==
  \A s \in Sessions :
    (pc[s] = "chunk" /\ job[s].file \in PdfNames /\ Pdf(job[s].file).openable)
    => LET pages == Pdf(job[s].file).pages
           documents == job[s].documents
       IN  /\ Len(documents) = Len(pages)
           /\ \A i \in 1..Len(documents) :
                /\ documents[i].metadata.page = i
                /\ ~pages[i].ok => documents[i].page_content.tokens = 0

\* The extraction of a file with a page that fails has returned fewer records
\* than the file has pages.
C7_Witness ==
  \E s \in Sessions :
    /\ pc[s] = "chunk" /\ job[s].file \in PdfNames /\ Pdf(job[s].file).openable
    /\ \E i \in 1..Len(Pdf(job[s].file).pages) : ~Pdf(job[s].file).pages[i].ok
    /\ Len(job[s].documents) < Len(Pdf(job[s].file).pages)

\* C8: every call of generate_response returns a response and sources and
\* does not raise, whichever of its calls fails; when the model invocation
\* fails, the response is the error text and there are no sources.
C8_NeverRaises ==
  \A s \in Sessions :
    chat[s].called
    => /\ ~chat[s].raised
       /\ chat[s].response \in {NoInfoText, ErrorText} \cup Answers
       /\ chat[s].failed # "none" => chat[s].sources = <<>>
       /\ chat[s].failed = "llm"
            => chat[s].response = ErrorText /\ chat[s].sources = <<>>

\* A call in which the model was invoked and failed.
C8_Witness ==
  \E s \in Sessions :
    /\ chat[s].called /\ chat[s].failed = "llm" /\ chat[s].llm_called
    /\ chat[s].retrieved.documents[1] # <<>>

\* C9: when the retrieval of a generate_response call is empty, the call
\* returns the "no relevant information" text and no sources, has not invoked
\* the model, and has left the conversation history as it was.
C9_EmptyRetrievalFallback ==
  \A s \in Sessions :
    (chat[s].called /\ chat[s].retrieved.documents[1] = <<>>)
    => /\ chat[s].response = NoInfoText
       /\ chat[s].sources = <<>>
       /\ ~chat[s].llm_called
       /\ Len(conversation_history[s]) = chat[s].turns_before

\* A call with an empty retrieval on an engine that has answered before.
C9_Witness ==
  \E s \in Sessions :
    /\ chat[s].called /\ chat[s].retrieved.documents[1] = <<>>
    /\ chat[s].turns_before >= 1

\* The job of session s is in one of its working phases.
Working(s) == phase[s] \in {"Extracting", "Chunking", "Indexing"}

\* This step serves a query of session t: the question and what came of it
\* are added to the session's chat.
QueryServed(t) == Len(chat_history'[t]) > Len(chat_history[t])

\* C11: while the job of a session is in Extracting, Chunking or Indexing, no
\* step serves a query on the collection, of that session or of any other.
C11_NoQueryDuringIngestion ==
  [][\A s \in Sessions, t \in Sessions : Working(s) => ~QueryServed(t)]_vars

\* C12: at most one session has a job in a working phase.
C12_OneJobAtATime ==
  Cardinality({s \in Sessions : Working(s)}) <= 1

\* Two jobs in their add_documents calls at once, the second having cleared
\* what the first has inserted.
C12_Witness ==
  \E s \in Sessions, t \in Sessions :
    /\ s # t
    /\ pc[s] = "ad_batch" /\ ad[s].i > 0
    /\ pc[t] = "ad_batch" /\ ad[t].i = 0
    /\ Count(collection) = 0

\* C13: a call of generate_response in which the model answered leaves the
\* history with exactly one more turn, the question and the answer, after the
\* turns it had; every other call (empty retrieval, failed retrieval, failed
\* prompt, failed model) leaves the history as it was.
C13_HistoryAppendOnly ==
  [][\A s \in Sessions :
       IF /\ chat'[s] # chat[s]
          /\ chat'[s].llm_called /\ chat'[s].failed = "none"
       THEN conversation_history'[s] =
              Append(conversation_history[s],
                     [user |-> chat'[s].query, assistant |-> chat'[s].response])
       ELSE conversation_history'[s] = conversation_history[s]]_vars

\* A call in which the model failed, on an engine that holds a turn.
C13_Witness ==
  \E s \in Sessions :
    /\ chat[s].called /\ chat[s].failed = "llm"
    /\ chat[s].turns_before >= 1
    /\ Len(conversation_history[s]) = chat[s].turns_before

\* C14: the step with which a job that has replaced the corpus becomes
\* Complete leaves the session with no turn recorded before: the engine's
\* conversation_history and the displayed chat_history are both empty.
C14_TranscriptCleared ==
  [][\A s \in Sessions :
       (phase[s] = "Indexing" /\ phase'[s] = "Complete")
       => /\ chat_history'[s] = <<>>
          /\ conversation_history'[s] = <<>>]_vars

\* A manual job has completed in a session that had a question and its
\* answer on display when the job began.
C14_Witness ==
  \E s \in Sessions :
    /\ job[s].kind = "manual" /\ job[s].asked > 0
    /\ phase[s] = "Complete" /\ pc[s] = "idle"
    /\ chat_history[s] = <<>> /\ conversation_history[s] = <<>>

\* The ranks of the retrieved results whose metadata has a page.
WithPage(metadatas) ==
  {i \in 1..Len(metadatas) : "page" \in DOMAIN metadatas[i]}

\* The n-th smallest element of a set of numbers.
Nth(ranks, n) == CHOOSE i \in ranks : Cardinality({j \in ranks : j < i}) = n - 1

\* C15: the sources of a call in which the model answered are the retrieved
\* results that have a page, in the order of their ranks, each with its page
\* and the similarity of the distance at its rank; a result with no page has
\* no source.
C15_SourcesInRankOrder ==
  \A s \in Sessions :
    (chat[s].called /\ chat[s].llm_called /\ chat[s].failed = "none")
    => LET metadatas == chat[s].retrieved.metadatas[1]
           distances == chat[s].retrieved.distances[1]
           sources == chat[s].sources
       IN  /\ Len(sources) = Cardinality(WithPage(metadatas))
           /\ \A n \in 1..Len(sources) :
                LET i == Nth(WithPage(metadatas), n)
                IN  /\ sources[n].page = metadatas[i].page
                    /\ sources[n].similarity = FormatSimilarity(distances[i])

\* An answer for which a result with no page ranked before one with a page.
C15_Witness ==
  \E s \in Sessions :
    /\ chat[s].called /\ chat[s].llm_called /\ chat[s].failed = "none"
    /\ LET metadatas == chat[s].retrieved.metadatas[1]
       IN  /\ Len(chat[s].sources) >= 1
           /\ \E i \in 1..Len(metadatas), j \in 1..Len(metadatas) :
                /\ i < j
                /\ "page" \notin DOMAIN metadatas[i]
                /\ "page" \in DOMAIN metadatas[j]
                /\ chat[s].retrieved.distances[1][i] # chat[s].retrieved.distances[1][j]

\* The number a similarity text "12.0%" or "-12.0%" shows, to the unit.
Shown(text) ==
  LET dot == CHOOSE p \in 1..Len(text) : text[p] = "."
  IN  IF text[1] = "-" THEN 0 - IdValue(SubSeq(text, 2, dot - 1))
      ELSE IdValue(SubSeq(text, 1, dot - 1))

\* C17: every similarity in the sources of an answer is a number from 0 to
\* 100, for the distances from 0 to 2 that the cosine collection returns.
C17_SimilarityInRange ==
  \A s \in Sessions :
    (chat[s].called /\ chat[s].llm_called /\ chat[s].failed = "none")
    => \A n \in 1..Len(chat[s].sources) :
         /\ Shown(chat[s].sources[n].similarity) >= 0
         /\ Shown(chat[s].sources[n].similarity) <= 100

\* An answer with a source whose result is at a distance above 1.
C17_Witness ==
  \E s \in Sessions :
    /\ chat[s].called /\ chat[s].llm_called /\ chat[s].failed = "none"
    /\ \E n \in 1..Len(chat[s].sources) :
         Shown(chat[s].sources[n].similarity) < 0

\* C16: a TextChunker with chunk_overlap >= chunk_size is rejected by its
\* construction, and so never by create_chunks.
C16_ConfigRejectedAtConstruction ==
  \A s \in Sessions :
    /\ (text_chunker[s].made
        /\ text_chunker[s].chunk_overlap >= text_chunker[s].chunk_size)
         => text_chunker[s].rejected = "init"
    /\ text_chunker[s].rejected # "create_chunks"

\* A TextChunker with an overlap above its chunk size was made, and
\* create_chunks has raised on it.
C16_Witness ==
  \E s \in Sessions :
    /\ text_chunker[s].made
    /\ text_chunker[s].chunk_overlap > text_chunker[s].chunk_size
    /\ text_chunker[s].rejected = "create_chunks"

\* The ids count() .. count() + n - 1 of an index holding `coll`.
IdsFromCount(coll, n) == {str(Count(coll) + j) : j \in 0..(n - 1)}

\* C18: in the automatic job every batch after the first is appended under the
\* ids count() .. count() + len(batch) - 1 of the index at that moment, and
\* every entry the index held stays as it was.
C18_AppendFromCount ==
  [][\A s \in Sessions :
       (pc[s] = "auto_add" /\ pc'[s] = "auto_loop") =>
         LET batch == BatchOf(job[s].chunks, job[s].i, ProgressBatchSize)
         IN  /\ DOMAIN collection' =
                  DOMAIN collection \cup IdsFromCount(collection, Len(batch))
             /\ \A id \in DOMAIN collection : collection'[id] = collection[id]
             /\ \A j \in 1..Len(batch) :
                  collection'[str(Count(collection) + j - 1)] =
                    [document |-> batch[j].page_content,
                     metadata |-> batch[j].metadata]]_vars

\* A later batch of the automatic job was added under ids counted from 0
\* while the index held entries: the index is left short of the chunk list.
C18_Witness ==
  \E s \in Sessions :
    /\ job[s].kind = "auto"
    /\ pc[s] = "auto_loop"
    /\ job[s].i > ProgressBatchSize
    /\ job[s].existing_count = 0
    /\ Count(collection) > 0
    /\ Count(collection) < Len(job[s].chunks)

\* The automatic job of s has run its loop over a chunk list to the end and
\* returns True at its next step.
AutoSucceeds(s) ==
  /\ job[s].kind = "auto"
  /\ pc[s] = "auto_loop"
  /\ job[s].i >= Len(job[s].chunks)
  /\ Len(job[s].chunks) > 0

\* C19: a successful process_pdf_with_progress leaves the index as one call
\* add_documents(chunks) is to leave it: ids "0" .. "len(chunks)-1" with the
\* chunks in order, and no other entry.
C19_PathsEquivalent ==
  [][\A s \in Sessions :
       (AutoSucceeds(s) /\ phase'[s] = "Complete") =>
         collection' = ExpectedIndex(job[s].chunks)]_vars

\* The automatic job is about to return True over an index that is not the
\* one add_documents(chunks) is to leave.
C19_Witness ==
  \E s \in Sessions :
    /\ AutoSucceeds(s)
    /\ collection # ExpectedIndex(job[s].chunks)

\* The automatic job has ended Failed on an empty chunk list, and the index is
\* as it was: add_documents was never called.
C19_EmptyListFails ==
  \E s \in Sessions :
    /\ job[s].kind = "auto"
    /\ phase[s] = "Failed"
    /\ job[s].file = "B"
    /\ pc[s] = "idle"

\* The step of session s is the press of "Clear Current PDF".
Clears(s) == processed[s] /\ ~processed'[s] /\ pc'[s] = "idle"

\* Session s is past its first run and has no file loaded, as after a clear.
Unloaded(s) == pc[s] = "idle" /\ initialization_complete[s] /\ ~processed[s]

\* C20: "Clear Current PDF" resets processed, processed_file and chat_history
\* of the session and leaves the index and initialization_complete as they
\* were; from then on, in that session, no question is answered, no automatic
\* job is started, and processed becomes True again only by a job completing.
C20_ClearResetsSessionOnly ==
  [][\A s \in Sessions :
       /\ Clears(s) =>
            /\ processed_file'[s] = "None"
            /\ chat_history'[s] = <<>>
            /\ collection' = collection
            /\ initialization_complete'[s] /\ initialization_complete[s]
            /\ uploads' = uploads
       /\ Unloaded(s) =>
            /\ ~QueryServed(s)
            /\ pc'[s] \in {"idle", "new", "extract"}
            /\ pc'[s] = "extract" => job'[s].kind = "manual"
       /\ (initialization_complete[s] /\ ~processed[s] /\ processed'[s]) =>
            /\ phase[s] = "Indexing"
            /\ phase'[s] = "Complete"]_vars

\* Session s has cleared its file: no file is loaded, the job that loaded it
\* is still shown Complete, the chat is empty and the index holds the corpus.
C20_Witness ==
  \E s \in Sessions :
    /\ Unloaded(s)
    /\ processed_file[s] = "None"
    /\ phase[s] = "Complete"
    /\ chat_history[s] = <<>>
    /\ Count(collection) > 0

====
